---- MODULE Spec2Model ----
(***************************************************************************)
(* Model of beanprice/sources/fmp.py: the FMP price source.                *)
(*                                                                         *)
(* One invocation of get_latest_price, get_historical_price or             *)
(* get_prices_series is modelled in two steps, split at the one blocking   *)
(* call the code makes: the call of the operation up to and including      *)
(* requests.get(REQUEST_URL), and the rest of the operation once the       *)
(* transport has answered.  Text (dates, prices, tickers) is a sequence of *)
(* one-character strings, so that strptime, strftime and Decimal(str(x))   *)
(* are computed on the characters.                                         *)
(***************************************************************************)
EXTENDS Integers, Sequences, FiniteSets

VARIABLES pc, call, query, gets, response, outcome

vars == <<pc, call, query, gets, response, outcome>>

\* Longest JSON array the transport returns in the model.
MaxLen == 3

-----------------------------------------------------------------------------
(* Text helpers *)

NoText == <<>>

Digits == <<"0", "1", "2", "3", "4", "5", "6", "7", "8", "9">>

IsDigit(c) == \E i \in 1..10 : Digits[i] = c

DigitVal(c) == (CHOOSE i \in 1..10 : Digits[i] = c) - 1

AllDigits(s) == \A i \in 1..Len(s) : IsDigit(s[i])

RECURSIVE ToNat(_)
ToNat(s) == IF s = <<>> THEN 0
            ELSE 10 * ToNat(SubSeq(s, 1, Len(s) - 1)) + DigitVal(s[Len(s)])

\* n written with at least `width` digits, zero padded (the %02d / %04d of strftime)
RECURSIVE Pad(_, _)
Pad(n, width) ==
    IF n < 10 /\ width <= 1 THEN <<Digits[n + 1]>>
    ELSE Pad(n \div 10, width - 1) \o <<Digits[(n % 10) + 1]>>

\* position of the first c in s, 0 when there is none
IndexOf(s, c) == IF \E i \in 1..Len(s) : s[i] = c
                 THEN CHOOSE i \in 1..Len(s) : s[i] = c /\ \A j \in 1..(i - 1) : s[j] # c
                 ELSE 0

\* the letters the decimal grammar names, lower-cased (the grammar is case-insensitive)
LowerChar(c) ==
    CASE c = "I" -> "i" [] c = "N" -> "n" [] c = "F" -> "f" [] c = "T" -> "t"
      [] c = "Y" -> "y" [] c = "A" -> "a" [] c = "S" -> "s" [] c = "E" -> "e"
      [] OTHER -> c

Lower(s) == [i \in 1..Len(s) |-> LowerChar(s[i])]

-----------------------------------------------------------------------------
(* The proleptic Gregorian calendar of datetime *)

IsLeap(y) == (y % 4 = 0) /\ ((y % 100 # 0) \/ (y % 400 = 0))

DaysInMonth(y, m) ==
    IF m = 2 THEN (IF IsLeap(y) THEN 29 ELSE 28)
    ELSE IF m \in {4, 6, 9, 11} THEN 30 ELSE 31

RECURSIVE DaysBeforeMonth(_, _)
DaysBeforeMonth(y, m) ==
    IF m <= 1 THEN 0 ELSE DaysBeforeMonth(y, m - 1) + DaysInMonth(y, m - 1)

DaysBeforeYear(y) ==
    LET p == y - 1 IN p * 365 + (p \div 4) - (p \div 100) + (p \div 400)

\* date(y, m, d).toordinal()
Ymd2Ord(y, m, d) == DaysBeforeYear(y) + DaysBeforeMonth(y, m) + d

\* date.fromordinal(n), as <<year, month, day>>
Ord2Ymd(n) ==
    LET n0   == n - 1
        n400 == n0 \div 146097
        r400 == n0 % 146097
        n100 == r400 \div 36524
        r100 == r400 % 36524
        n4   == r100 \div 1461
        r4   == r100 % 1461
        n1   == r4 \div 365
        r1   == r4 % 365
        year == n400 * 400 + 1 + n100 * 100 + n4 * 4 + n1
    IN  IF n1 = 4 \/ n100 = 4 THEN <<year - 1, 12, 31>>
        ELSE LET month == CHOOSE m \in 1..12 :
                              /\ DaysBeforeMonth(year, m) <= r1
                              /\ r1 < DaysBeforeMonth(year, m) + DaysInMonth(year, m)
             IN  <<year, month, r1 - DaysBeforeMonth(year, month) + 1>>

\* toordinal() of 1970-01-01, the epoch of the timestamps
EpochOrd == Ymd2Ord(1970, 1, 1)

-----------------------------------------------------------------------------
(* Values of the transport's JSON, and str() of them *)

\* A JSON value stored under a key of a record: t is "str" (s is the text),
\* "num" (s is the repr of the number) or "absent" (no such key, or null:
\* dict.get gives None, and item[key] raises KeyError or gives None).
StrField(s) == [t |-> "str", s |-> s]
NumField(s) == [t |-> "num", s |-> s]
Absent == [t |-> "absent", s |-> NoText]

\* str(x), as the f-strings and Decimal(str(x)) see the value
str(f) == IF f.t = "absent" THEN <<"N", "o", "n", "e">> ELSE f.s

-----------------------------------------------------------------------------
(* datetime.strptime(date_string, "%Y-%m-%d").date() and                  *)
(* datetime.combine(date, datetime.min.time(), tzinfo=timezone.utc)        *)

MonthText(p) == /\ AllDigits(p)
                /\ \/ Len(p) = 1 /\ ToNat(p) \in 1..9
                   \/ Len(p) = 2 /\ ToNat(p) \in 1..12

DayText(p) == /\ AllDigits(p)
              /\ \/ Len(p) = 1 /\ ToNat(p) \in 1..9
                 \/ Len(p) = 2 /\ ToNat(p) \in 1..31

\* [err |-> "" | "TypeError" | "ValueError", ord |-> the date's ordinal]
strptime(f) ==
    IF f.t # "str" THEN [err |-> "TypeError", ord |-> 0]
    ELSE LET s  == f.s
             i1 == IndexOf(s, "-")
             r1 == SubSeq(s, i1 + 1, Len(s))
             i2 == IndexOf(r1, "-")
             py == SubSeq(s, 1, i1 - 1)
             pm == SubSeq(r1, 1, i2 - 1)
             pd == SubSeq(r1, i2 + 1, Len(r1))
         IN  IF i1 = 0 \/ i2 = 0 THEN [err |-> "ValueError", ord |-> 0]
             ELSE IF ~(Len(py) = 4 /\ AllDigits(py) /\ MonthText(pm) /\ DayText(pd))
                  THEN [err |-> "ValueError", ord |-> 0]
             ELSE LET y == ToNat(py)
                      m == ToNat(pm)
                      d == ToNat(pd)
                  IN  IF y < 1 \/ d > DaysInMonth(y, m)
                      THEN [err |-> "ValueError", ord |-> 0]
                      ELSE [err |-> "", ord |-> Ymd2Ord(y, m, d)]

\* midnight UTC of the day with ordinal ord, in seconds since the epoch
MidnightUTC(ord) == (ord - EpochOrd) * 86400

\* A datetime of the model: the day's ordinal and the hour of the day
\* (strftime("%Y-%m-%d") of it)
strftime(dt) ==
    LET ymd == Ord2Ymd(dt.ord)
    IN  Pad(ymd[1], 4) \o <<"-">> \o Pad(ymd[2], 2) \o <<"-">> \o Pad(ymd[3], 2)

-----------------------------------------------------------------------------
(* Decimal(str(price_string)) *)

\* digits [. digits] | . digits, with at least one digit
IsMantissa(s) ==
    LET dot == IndexOf(s, ".")
        ip  == IF dot = 0 THEN s ELSE SubSeq(s, 1, dot - 1)
        fp  == IF dot = 0 THEN <<>> ELSE SubSeq(s, dot + 1, Len(s))
    IN  AllDigits(ip) /\ AllDigits(fp) /\ Len(ip) + Len(fp) > 0

IsExponent(s) ==
    LET u == IF s # <<>> /\ s[1] \in {"+", "-"} THEN Tail(s) ELSE s
    IN  u # <<>> /\ AllDigits(u)

ExponentVal(s) ==
    IF s = <<>> THEN 0
    ELSE IF s[1] = "-" THEN 0 - ToNat(Tail(s))
    ELSE IF s[1] = "+" THEN ToNat(Tail(s))
    ELSE ToNat(s)

\* [err |-> "" | "InvalidOperation", cls |-> "finite" | "inf" | "nan" | "snan",
\*  sign, coef, exp]: the value is (-1)^sign * coef * 10^exp
Decimal(text) ==
    LET low  == Lower(text)
        neg  == low # <<>> /\ low[1] = "-"
        body == IF low # <<>> /\ low[1] \in {"+", "-"} THEN Tail(low) ELSE low
        sgn  == IF neg THEN 1 ELSE 0
        bad  == [err |-> "InvalidOperation", cls |-> "", sign |-> 0, coef |-> 0, exp |-> 0]
        special(c, payload) ==
            [err |-> "", cls |-> c, sign |-> sgn, coef |-> payload, exp |-> 0]
        e    == IndexOf(body, "e")
        man  == IF e = 0 THEN body ELSE SubSeq(body, 1, e - 1)
        ex   == IF e = 0 THEN <<>> ELSE SubSeq(body, e + 1, Len(body))
        dot  == IndexOf(man, ".")
        ip   == IF dot = 0 THEN man ELSE SubSeq(man, 1, dot - 1)
        fp   == IF dot = 0 THEN <<>> ELSE SubSeq(man, dot + 1, Len(man))
    IN  IF body = <<"i", "n", "f">> \/ body = <<"i", "n", "f", "i", "n", "i", "t", "y">>
        THEN special("inf", 0)
        ELSE IF Len(body) >= 3 /\ SubSeq(body, 1, 3) = <<"n", "a", "n">>
                /\ AllDigits(SubSeq(body, 4, Len(body)))
        THEN special("nan", ToNat(SubSeq(body, 4, Len(body))))
        ELSE IF Len(body) >= 4 /\ SubSeq(body, 1, 4) = <<"s", "n", "a", "n">>
                /\ AllDigits(SubSeq(body, 5, Len(body)))
        THEN special("snan", ToNat(SubSeq(body, 5, Len(body))))
        ELSE IF IsMantissa(man) /\ (e = 0 \/ IsExponent(ex))
        THEN [err |-> "", cls |-> "finite", sign |-> sgn,
              coef |-> ToNat(ip \o fp), exp |-> ExponentVal(ex) - Len(fp)]
        ELSE bad

-----------------------------------------------------------------------------
(* Inputs: tickers, instants, and what the transport may answer *)

EURUSD == <<"E", "U", "R", "U", "S", "D">>
AAPL == <<"A", "A", "P", "L">>

Tickers == {EURUSD, AAPL}

\* An aware datetime as the caller passes it: wall-clock date and hour, and the
\* offset of its timezone from UTC in hours.
At(y, m, d, hour, utcoffset) ==
    [y |-> y, m |-> m, d |-> d, hour |-> hour, utcoffset |-> utcoffset]

NoTime == At(1, 1, 1, 0, 0)

\* Target instants around month ends, a leap day and a year end, in three zones
TargetInstants ==
    { At(2024, 1, 1, 0, 9),  At(2023, 12, 31, 23, -8), At(2024, 3, 1, 2, 5),
      At(2024, 3, 4, 22, -5), At(2023, 3, 3, 10, 0) }

SeriesRanges ==
    { <<At(2024, 3, 1, 0, 0), At(2024, 3, 3, 0, 0)>>,
      <<At(2023, 12, 30, 18, 0), At(2024, 1, 2, 6, 0)>> }

\* One element of a JSON array: kind "obj" is an object with the keys
\* timestamp, date and price; the other kinds are a number, a string and null,
\* which have no keys (a nested array or a boolean behaves as they do).
Rec(timestamp, date, price) ==
    [kind |-> "obj", timestamp |-> timestamp, date |-> date, price |-> price]

NonObj(kind) == [kind |-> kind, timestamp |-> Absent, date |-> Absent, price |-> Absent]

Mar01 == StrField(<<"2", "0", "2", "4", "-", "0", "3", "-", "0", "1">>)
Mar02 == StrField(<<"2", "0", "2", "4", "-", "0", "3", "-", "0", "2">>)
Mar03 == StrField(<<"2", "0", "2", "4", "-", "0", "3", "-", "0", "3">>)
Feb30 == StrField(<<"2", "0", "2", "4", "-", "0", "2", "-", "3", "0">>)

Ts01 == NumField(<<"1", "7", "0", "9", "2", "5", "1", "2", "0", "0">>)
Ts02 == NumField(<<"1", "7", "0", "9", "3", "3", "7", "6", "0", "0">>)
Ts03 == NumField(<<"1", "7", "0", "9", "4", "7", "2", "6", "0", "0">>)
TsBad == StrField(<<"n", "o", "w">>)

NA == <<"N", "/", "A">>

ValidRecords ==
    { Rec(Ts03, Mar03, StrField(<<"1", ".", "0", "7", "5", "0">>)),
      Rec(Ts01, Mar01, StrField(<<"1", "e", "2">>)),
      Rec(Ts02, Mar02, NumField(<<"1", "2", "3", ".", "4", "5">>)),
      Rec(Ts01, Mar01, StrField(<<"0">>)) }

NonFiniteRecords ==
    { Rec(Ts02, Mar02, StrField(<<"N", "a", "N">>)),
      Rec(Ts03, Mar03, StrField(<<"-", "I", "n", "f", "i", "n", "i", "t", "y">>)) }

BadRecords ==
    { Rec(Ts02, Mar02, StrField(NA)),
      Rec(TsBad, Feb30, StrField(NA)) }

NonObjects == { NonObj("num"), NonObj("str"), NonObj("null") }

Elements == ValidRecords \cup NonFiniteRecords \cup BadRecords \cup NonObjects

SeqsUpTo(S, n) == UNION { [1..k -> S] : k \in 0..n }

\* A response body: text that is no JSON ("undecodable"), or the decoded value:
\* an array of elements, an object (items: its keys), a string (items: its
\* characters), a number, or null.
Body(shape, items) == [shape |-> shape, items |-> items]

Bodies ==
    { Body("array", items) : items \in SeqsUpTo(Elements, MaxLen) }
    \cup { Body("undecodable", <<>>), Body("number", <<>>), Body("null", <<>>),
           Body("object", <<>>), Body("object", <<NonObj("str")>>),
           Body("string", <<>>), Body("string", <<NonObj("str")>>) }

\* What requests.get does: it returns a response with a status code and a body
\* ("http"), or raises ("raise"), or, for a stubbed transport, returns None.
Http(status, body) == [kind |-> "http", status |-> status, body |-> body]

NoResponse == [kind |-> "none", status |-> 0, body |-> Body("undecodable", <<>>)]

TransportError == [kind |-> "raise", status |-> 0, body |-> Body("undecodable", <<>>)]

Statuses == {200, 404}

Responses == { Http(st, b) : st \in Statuses, b \in Bodies }
             \cup {NoResponse, TransportError}

\* The conversions of the texts the records carry, computed once per text
DecimalOf == [text \in {str(e.price) : e \in Elements} |-> Decimal(text)]

StrptimeOf == [f \in {e.date : e \in Elements} |-> strptime(f)]

-----------------------------------------------------------------------------
(* Results of an operation *)

\* The text of an FMPError: which message it is, and the values its f-string
\* interpolates (NoText for those it does not).
Msg(fmt, ticker, value, from, to) ==
    [fmt |-> fmt, ticker |-> ticker, value |-> value, from |-> from, to |-> to]

NoMsg == Msg("", NoText, NoText, NoText, NoText)

\* source.SourcePrice(price, time, quote_currency)
SourcePrice(price, time, quote_currency) ==
    [price |-> price, time |-> time, quote_currency |-> quote_currency]

Pending == [kind |-> "pending", exc |-> "", msg |-> NoMsg, value |-> <<>>]

ReturnNone == [kind |-> "none", exc |-> "", msg |-> NoMsg, value |-> <<>>]

ReturnPrice(sp) == [kind |-> "price", exc |-> "", msg |-> NoMsg, value |-> <<sp>>]

ReturnList(l) == [kind |-> "list", exc |-> "", msg |-> NoMsg, value |-> l]

Raise(exc, msg) == [kind |-> "raise", exc |-> exc, msg |-> msg, value |-> <<>>]

-----------------------------------------------------------------------------
(* The fetch functions, from the line after requests.get on *)

\* `response is None and not response.status_code == 200`, for a response
\* object (for None the right operand raises AttributeError before this)
no_data_guard(resp) == resp.kind = "none" /\ ~(resp.status = 200)

json_last(body) ==
    IF body.shape \in {"array", "string"} /\ Len(body.items) > 0
    THEN [failed |-> FALSE, data |-> body.items[Len(body.items)]]
    ELSE [failed |-> TRUE, data |-> NonObj("null")]

\* response.json()[0] inside try: the element, or failed = TRUE when json()
\* or the subscript raises (JSONDecodeError, IndexError, KeyError, TypeError)
json_first(body) ==
    IF body.shape \in {"array", "string"} /\ Len(body.items) > 0
    THEN [failed |-> FALSE, data |-> body.items[1]]
    ELSE [failed |-> TRUE, data |-> NonObj("null")]

first_element_error_lenient(msg) == ReturnNone

\* except: raise FMPError(...) around response.json()[0]
first_element_error(msg) == Raise("FMPError", msg)

\* datetime.fromtimestamp(unixtimestamp_string, tz=timezone.utc): seconds since
\* the epoch of a number, TypeError for a string or None
fromtimestamp(f) ==
    IF f.t = "num" /\ AllDigits(f.s) THEN [err |-> "", time |-> ToNat(f.s)]
    ELSE [err |-> "TypeError", time |-> 0]

\* datetime.combine(strptime(date_string, "%Y-%m-%d").date(), datetime.min.time(), tzinfo=utc)
date_to_datetime(f) ==
    LET d == StrptimeOf[f] IN [err |-> d.err, time |-> IF d.err = "" THEN MidnightUTC(d.ord) ELSE 0]

timestamp_error(ticker, f) ==
    Raise("FMPError", Msg("Invalid timestamp format for", ticker, str(f), NoText, NoText))

price_error_without_value(ticker, f) ==
    Raise("FMPError", Msg("Invalid price format for", ticker, NoText, NoText, NoText))

price_error(ticker, f) ==
    Raise("FMPError", Msg("Invalid price format for", ticker, str(f), NoText, NoText))

\* Decimal(str(price_string)) in its try, and the SourcePrice returned
price_to_source_price(ticker, price_date, price_string) ==
    LET price_value == DecimalOf[str(price_string)]
    IN  IF price_value.err # "" THEN price_error(ticker, price_string)
        ELSE ReturnPrice(SourcePrice(price_value, price_date.time, "None"))

fetch_latest_price(params_dict, resp) ==
    LET ticker == params_dict.symbol
    IN  IF resp.kind = "raise" THEN Raise("RequestException", NoMsg)
        ELSE IF resp.kind = "none" THEN Raise("AttributeError", NoMsg)
        ELSE IF no_data_guard(resp) THEN ReturnNone
        ELSE LET first == json_first(resp.body)
                 data  == first.data
             IN  IF first.failed
                 THEN first_element_error(
                          Msg("Error requesting at most current date", ticker,
                              NoText, NoText, NoText))
                 ELSE IF data.kind # "obj" THEN Raise("AttributeError", NoMsg)
                 ELSE LET price_date == fromtimestamp(data.timestamp)
                      IN  IF price_date.err # ""
                          THEN timestamp_error(ticker, data.timestamp)
                          ELSE price_to_source_price(ticker, price_date, data.price)

fetch_historical_price(params_dict, resp) ==
    LET ticker == params_dict.symbol
    IN  IF resp.kind = "raise" THEN Raise("RequestException", NoMsg)
        ELSE IF resp.kind = "none" THEN Raise("AttributeError", NoMsg)
        ELSE IF no_data_guard(resp) THEN ReturnNone
        ELSE LET first == json_first(resp.body)
                 data  == first.data
             IN  IF first.failed
                 THEN first_element_error(
                          Msg("Error requesting between", ticker, NoText,
                              params_dict.from, params_dict.to))
                 ELSE IF data.kind # "obj" THEN Raise("AttributeError", NoMsg)
                 ELSE LET price_date == date_to_datetime(data.date)
                      IN  IF price_date.err # ""
                          THEN timestamp_error(ticker, data.date)
                          ELSE price_to_source_price(ticker, price_date, data.price)

\* One item of the list comprehension: (datetime, Decimal), or failed = TRUE
\* when item['date'], strptime, item['price'] or Decimal raises
series_item(item) ==
    LET when        == date_to_datetime(item.date)
        price_value == DecimalOf[str(item.price)]
    IN  IF item.kind # "obj" \/ when.err # "" \/ price_value.err # ""
        THEN [failed |-> TRUE, tuple |-> <<0, price_value>>]
        ELSE [failed |-> FALSE, tuple |-> <<when.time, price_value>>]

fetch_price_series(ticker, date_from, date_to, resp) ==
    LET data      == resp.body
        converted == [i \in 1..Len(data.items) |-> series_item(data.items[i])]
    IN  IF resp.kind = "raise" THEN Raise("RequestException", NoMsg)
        ELSE IF resp.kind = "none" THEN Raise("AttributeError", NoMsg)
        ELSE IF no_data_guard(resp) THEN ReturnNone
        ELSE IF data.shape = "undecodable"
        THEN Raise("FMPError", Msg("Error requesting between", ticker, NoText,
                                   date_from, date_to))
        ELSE IF \/ data.shape \in {"number", "null"}
                \/ \E i \in 1..Len(converted) : converted[i].failed
        THEN Raise("FMPError", Msg("Error iterating through to generate tuple", ticker,
                                   NoText, date_from, date_to))
        ELSE ReturnList([i \in 1..Len(converted) |-> converted[i].tuple])

-----------------------------------------------------------------------------
(* sorted(res, key=lambda x: x.time): a stable sort *)

RECURSIVE insert_by_time(_, _)
insert_by_time(sorted_prefix, x) ==
    IF sorted_prefix = <<>> THEN <<x>>
    ELSE LET last == sorted_prefix[Len(sorted_prefix)]
         IN  IF last.time <= x.time THEN Append(sorted_prefix, x)
             ELSE Append(insert_by_time(SubSeq(sorted_prefix, 1, Len(sorted_prefix) - 1), x),
                         last)

RECURSIVE sort_prefix(_, _)
sort_prefix(res, n) ==
    IF n = 0 THEN <<>> ELSE insert_by_time(sort_prefix(res, n - 1), res[n])

sorted_unsorted(res) == res

RECURSIVE drop_same_time(_)
drop_same_time(res) ==
    IF Len(res) <= 1 THEN res
    ELSE LET rest == drop_same_time(Tail(res))
         IN  IF res[1].time = rest[1].time THEN rest ELSE <<res[1]>> \o rest

sorted_deduplicated(res) == drop_same_time(sort_prefix(res, Len(res)))

sorted(res) == sort_prefix(res, Len(res))

-----------------------------------------------------------------------------
(* datetime arithmetic of get_historical_price *)

\* timedelta(days=5) and timedelta(days=1)
WindowBack == 5
WindowAhead == 1

\* The datetime of the model for the wall clock of t, zone ignored
wallclock(t) == [ord |-> Ymd2Ord(t.y, t.m, t.d), hour |-> t.hour]

astimezone_skipped(t) == wallclock(t)

\* time.astimezone(tz.tzutc()): the same instant on the UTC wall clock
astimezone_utc(t) ==
    LET hours == Ymd2Ord(t.y, t.m, t.d) * 24 + t.hour - t.utcoffset
    IN  [ord |-> hours \div 24, hour |-> hours % 24]

\* datetime + timedelta(days=n)
plus_days(dt, n) == [ord |-> dt.ord + n, hour |-> dt.hour]

-----------------------------------------------------------------------------
(* State *)

Call(op, ticker, time, time_begin, time_end) ==
    [op |-> op, ticker |-> ticker, time |-> time,
     time_begin |-> time_begin, time_end |-> time_end]

NoCall == Call("", NoText, NoTime, NoTime, NoTime)

\* REQUEST_URL: the endpoint and the query parameters put into it
Url(endpoint, symbol, from, to) ==
    [endpoint |-> endpoint, symbol |-> symbol, from |-> from, to |-> to]

NoUrl == Url("", NoText, NoText, NoText)

Unanswered == [kind |-> "unanswered", status |-> 0, body |-> Body("undecodable", <<>>)]

requests_get_twice(n) == n + 2

\* requests.get(REQUEST_URL): one more GET issued by this invocation
requests_get(n) == n + 1

Init ==
    /\ pc = "idle"
    /\ call = NoCall
    /\ query = NoUrl
    /\ gets = 0
    /\ response = Unanswered
    /\ outcome = Pending

\* get_latest_price and _fetch_latest_price up to requests.get
get_latest_price(ticker) ==
    /\ pc = "idle"
    /\ call' = Call("get_latest_price", ticker, NoTime, NoTime, NoTime)
    /\ query' = Url("quote", ticker, NoText, NoText)
    /\ gets' = requests_get(gets)
    /\ pc' = "waiting"
    /\ UNCHANGED <<response, outcome>>

\* The window of get_historical_price: params_dict
historical_params(ticker, time) ==
    LET utc                  == astimezone_utc(time)
        query_interval_begin == plus_days(utc, 0 - WindowBack)
        query_interval_end   == plus_days(utc, WindowAhead)
    IN  [symbol |-> ticker,
         from   |-> strftime(query_interval_begin),
         to     |-> strftime(query_interval_end)]

\* get_historical_price and _fetch_historical_price up to requests.get
get_historical_price(ticker, time) ==
    /\ pc = "idle"
    /\ call' = Call("get_historical_price", ticker, time, NoTime, NoTime)
    /\ LET params_dict == historical_params(ticker, time)
       IN  query' = Url("historical-price-eod/light", params_dict.symbol,
                        params_dict.from, params_dict.to)
    /\ gets' = requests_get(gets)
    /\ pc' = "waiting"
    /\ UNCHANGED <<response, outcome>>

\* get_prices_series and _fetch_price_series up to requests.get
get_prices_series(ticker, time_begin, time_end) ==
    /\ pc = "idle"
    /\ call' = Call("get_prices_series", ticker, NoTime, time_begin, time_end)
    /\ query' = Url("historical-price-eod/light", ticker,
                    strftime(wallclock(time_begin)), strftime(wallclock(time_end)))
    /\ gets' = requests_get(gets)
    /\ pc' = "waiting"
    /\ UNCHANGED <<response, outcome>>

\* The transport answers and get_latest_price runs to its end
latest_price_completes ==
    /\ pc = "waiting"
    /\ call.op = "get_latest_price"
    /\ \E resp \in Responses :
           /\ response' = resp
           /\ outcome' = fetch_latest_price([symbol |-> query.symbol], resp)
    /\ pc' = "done"
    /\ UNCHANGED <<call, query, gets>>

\* The transport answers and get_historical_price runs to its end
historical_price_completes ==
    /\ pc = "waiting"
    /\ call.op = "get_historical_price"
    /\ \E resp \in Responses :
           /\ response' = resp
           /\ outcome' = fetch_historical_price(
                             [symbol |-> query.symbol, from |-> query.from,
                              to |-> query.to], resp)
    /\ pc' = "done"
    /\ UNCHANGED <<call, query, gets>>

\* The list comprehension over _fetch_price_series' result and the sort
series_result(fetched) ==
    IF fetched.kind = "raise" THEN fetched
    ELSE IF fetched.kind = "none" THEN Raise("TypeError", NoMsg)
    ELSE ReturnList(sorted([i \in 1..Len(fetched.value) |->
                               SourcePrice(fetched.value[i][2], fetched.value[i][1], "None")]))

\* The transport answers and get_prices_series runs to its end
prices_series_completes ==
    /\ pc = "waiting"
    /\ call.op = "get_prices_series"
    /\ \E resp \in Responses :
           /\ response' = resp
           /\ outcome' = series_result(
                             fetch_price_series(query.symbol, query.from, query.to, resp))
    /\ pc' = "done"
    /\ UNCHANGED <<call, query, gets>>

\* The caller has the result; the next invocation starts afresh
Return ==
    /\ pc = "done"
    /\ pc' = "idle"
    /\ call' = NoCall
    /\ query' = NoUrl
    /\ gets' = 0
    /\ response' = Unanswered
    /\ outcome' = Pending

Next ==
    \/ \E ticker \in Tickers : get_latest_price(ticker)
    \/ \E ticker \in Tickers, time \in TargetInstants : get_historical_price(ticker, time)
    \/ \E ticker \in Tickers, range \in SeriesRanges :
           get_prices_series(ticker, range[1], range[2])
    \/ latest_price_completes
    \/ historical_price_completes
    \/ prices_series_completes
    \/ Return

Spec == Init /\ [][Next]_vars

-----------------------------------------------------------------------------
(* Properties *)

Done == pc = "done"

Fetched200 == response.kind = "http" /\ response.status = 200

Non200 == response.kind = "http" /\ response.status # 200

Raised(exc) == outcome.kind = "raise" /\ outcome.exc = exc

EmptyResult == outcome.kind = "none" \/ (outcome.kind = "list" /\ outcome.value = <<>>)

FirstRecordModes == {"get_latest_price", "get_historical_price"}

Items == response.body.items

IsArray == response.body.shape = "array"

\* A record both conversions of the historical endpoint accept
IsValidRecord(e) ==
    e.kind = "obj" /\ StrptimeOf[e.date].err = "" /\ DecimalOf[str(e.price)].err = ""

Normalized(e) ==
    SourcePrice(DecimalOf[str(e.price)], MidnightUTC(StrptimeOf[e.date].ord), "None")

SeqToBag(q) ==
    [x \in {q[i] : i \in DOMAIN q} |-> Cardinality({i \in DOMAIN q : q[i] = x})]

\* C1: whenever the transport's response has a status code other than 200,
\* whatever its body, the operation ends with an empty or absent result (None
\* or an empty series) and raises nothing.
C1_Non200YieldsEmptyResult == (Done /\ Non200) => EmptyResult

\* C2 (as stated): get_latest_price and get_historical_price return "no data"
\* and raise no FMPError when the fetch succeeds with status 200 and the body
\* is an empty array.
C2_EmptyArrayIsNoData ==
    (Done /\ Fetched200 /\ call.op \in FirstRecordModes /\ IsArray /\ Items = <<>>)
        => (EmptyResult /\ ~Raised("FMPError"))

\* C2 (amended): get_latest_price and get_historical_price raise an FMPError
\* naming the ticker, and return nothing, when the fetch succeeds with status
\* 200 and the body is an empty array.
C2_EmptyArrayRaisesFMPError ==
    (Done /\ Fetched200 /\ call.op \in FirstRecordModes /\ IsArray /\ Items = <<>>)
        => (Raised("FMPError") /\ outcome.msg.ticker = call.ticker /\ outcome.value = <<>>)

C2_Witness ==
    /\ Done /\ Fetched200 /\ call.op = "get_historical_price" /\ IsArray /\ Items = <<>>
    /\ Raised("FMPError")

\* C3: every series get_prices_series returns is sorted non-decreasing by
\* time, whatever the order of the provider's records.
C3_SeriesSorted ==
    (Done /\ call.op = "get_prices_series" /\ outcome.kind = "list")
        => \A i, j \in 1..Len(outcome.value) :
               i < j => outcome.value[i].time <= outcome.value[j].time

\* provider order 03-03, 03-01, 03-02 is returned as 03-01, 03-02, 03-03
C3_Witness ==
    /\ Done /\ call.op = "get_prices_series" /\ outcome.kind = "list"
    /\ Len(Items) = 3
    /\ Items[1].date = Mar03 /\ Items[2].date = Mar01 /\ Items[3].date = Mar02
    /\ outcome.value[1].time = MidnightUTC(Ymd2Ord(2024, 3, 1))
    /\ outcome.value[2].time = MidnightUTC(Ymd2Ord(2024, 3, 2))
    /\ outcome.value[3].time = MidnightUTC(Ymd2Ord(2024, 3, 3))

\* The calendar date of t on the UTC wall clock, as an ordinal
UTCDateOf(t) ==
    Ymd2Ord(t.y, t.m, t.d)
        + (IF t.hour - t.utcoffset < 0 THEN -1
           ELSE IF t.hour - t.utcoffset >= 24 THEN 1 ELSE 0)

\* C4: get_historical_price emits the historical-endpoint query for the
\* ticker with from = date(T) - 5 days and to = date(T) + 1 day, date(T) being
\* the UTC calendar date of T, both as YYYY-MM-DD text, whatever the provider
\* answers afterwards.
C4_HistoricalWindow ==
    (pc \in {"waiting", "done"} /\ call.op = "get_historical_price")
        => LET from == strptime(StrField(query.from))
               to   == strptime(StrField(query.to))
           IN  /\ query.endpoint = "historical-price-eod/light"
               /\ query.symbol = call.ticker
               /\ Len(query.from) = 10 /\ Len(query.to) = 10
               /\ from.err = "" /\ from.ord = UTCDateOf(call.time) - 5
               /\ to.err = "" /\ to.ord = UTCDateOf(call.time) + 1

\* 2024-01-01T00:00+09:00 is 2023-12-31 in UTC: the window crosses the year end
C4_Witness ==
    /\ Done /\ call.op = "get_historical_price"
    /\ call.time = At(2024, 1, 1, 0, 9)
    /\ query.from = <<"2", "0", "2", "3", "-", "1", "2", "-", "2", "6">>
    /\ query.to = <<"2", "0", "2", "4", "-", "0", "1", "-", "0", "1">>

\* The record the claim C5 is about: the first one in the first-record modes,
\* any one in the series mode
HasNAPrice(e) == e.kind = "obj" /\ e.price = StrField(NA)

NARecordFetched ==
    /\ Done /\ Fetched200 /\ IsArray
    /\ IF call.op \in FirstRecordModes
       THEN Len(Items) >= 1 /\ HasNAPrice(Items[1])
       ELSE \E i \in 1..Len(Items) : HasNAPrice(Items[i])

\* The same with nothing else wrong in what the mode reads: the record's
\* timestamp (latest) or date (near-date) is valid, and in the series mode
\* every element is a record with a valid date
OnlyPriceIsNA ==
    /\ NARecordFetched
    /\ call.op = "get_latest_price" => fromtimestamp(Items[1].timestamp).err = ""
    /\ call.op = "get_historical_price" => StrptimeOf[Items[1].date].err = ""
    /\ call.op = "get_prices_series"
           => \A i \in 1..Len(Items) :
                  Items[i].kind = "obj" /\ StrptimeOf[Items[i].date].err = ""

\* C5 (as stated): in all three modes a fetched record whose price is the text
\* N/A makes the operation raise an FMPError whose message names the symbol
\* and the offending price value, and no price is returned.
C5_NAPriceErrorNamesValue ==
    OnlyPriceIsNA
        => /\ Raised("FMPError") /\ outcome.value = <<>>
           /\ outcome.msg.ticker = call.ticker
           /\ outcome.msg.value = NA

\* C5 (amended): in all three modes such a record makes the operation raise an
\* FMPError whose message names the symbol, and no price is returned; the
\* message also names the price value in the latest and near-date modes when
\* the record's timestamp (latest) or date (near-date) is valid, and in the
\* series mode it names the requested date range and not the price value.
C5_NAPriceRaisesFMPError ==
    NARecordFetched
        => /\ Raised("FMPError") /\ outcome.value = <<>>
           /\ outcome.msg.ticker = call.ticker
           /\ (call.op = "get_latest_price" /\ fromtimestamp(Items[1].timestamp).err = "")
                  => outcome.msg.value = NA
           /\ (call.op = "get_historical_price" /\ StrptimeOf[Items[1].date].err = "")
                  => outcome.msg.value = NA
           /\ call.op = "get_prices_series"
                  => /\ outcome.msg.value = NoText
                     /\ outcome.msg.from = query.from /\ outcome.msg.to = query.to

C5_Witness ==
    /\ NARecordFetched /\ call.op = "get_prices_series"
    /\ Len(Items) = 2 /\ IsValidRecord(Items[1]) /\ HasNAPrice(Items[2])
    /\ Raised("FMPError") /\ outcome.msg.value = NoText

\* A decoded body that has not the shape the mode expects
ShapeMismatch ==
    IF call.op \in FirstRecordModes
    THEN ~IsArray \/ Items = <<>> \/ Items[1].kind # "obj"
    ELSE ~IsArray \/ \E i \in 1..Len(Items) : Items[i].kind # "obj"

\* C6: a body fetched with status 200 that decodes but has not the expected
\* shape always ends in an FMPError: no value is returned and no other kind of
\* exception is raised.
C6_ShapeMismatchIsFMPError ==
    (Done /\ Fetched200 /\ response.body.shape # "undecodable" /\ ShapeMismatch)
        => Raised("FMPError")

\* C7: the amount of every returned price is a finite decimal: NaN and the
\* infinities are never returned.
C7_AmountsFinite ==
    Done => \A i \in 1..Len(outcome.value) : outcome.value[i].price.cls = "finite"

\* C8: when the historical response is a sequence whose first record is valid,
\* get_historical_price returns the price built from that first record alone:
\* midnight UTC of its date, its price, no quote currency, whatever T is and
\* whatever the later records are.
C8_FirstRecordOnly ==
    (/\ Done /\ call.op = "get_historical_price" /\ response.kind = "http"
     /\ IsArray /\ Len(Items) >= 1 /\ IsValidRecord(Items[1]))
        => outcome = ReturnPrice(Normalized(Items[1]))

\* T is 2024-03-05 in UTC; the second record (03-03) is closer to T than the
\* first (03-01), and the third is no record at all
C8_Witness ==
    /\ Done /\ call.op = "get_historical_price" /\ Fetched200 /\ IsArray
    /\ call.time = At(2024, 3, 4, 22, -5)
    /\ Len(Items) = 3
    /\ Items[1].date = Mar01 /\ Items[1].price = StrField(<<"1", "e", "2">>)
    /\ Items[2].date = Mar03 /\ IsValidRecord(Items[2])
    /\ Items[3].kind = "num"
    /\ outcome.kind = "price"
    /\ outcome.value[1].time = MidnightUTC(Ymd2Ord(2024, 3, 1))
    /\ outcome.value[1].price.coef = 1 /\ outcome.value[1].price.exp = 2
    /\ outcome.value[1].quote_currency = "None"

\* C9: for a body fetched with status 200 that is a sequence of n valid
\* records, get_prices_series returns n prices that are a permutation of the
\* normalized records: nothing is filtered or deduplicated, and n = 0 gives an
\* empty series.
C9_SeriesPermutation ==
    (/\ Done /\ call.op = "get_prices_series" /\ Fetched200 /\ IsArray
     /\ \A i \in 1..Len(Items) : IsValidRecord(Items[i]))
        => /\ outcome.kind = "list"
           /\ Len(outcome.value) = Len(Items)
           /\ SeqToBag(outcome.value) = SeqToBag([i \in 1..Len(Items) |-> Normalized(Items[i])])

\* two records of 2024-03-01 and one of 03-03, all outside the requested range
\* 2023-12-30 .. 2024-01-02
C9_Witness ==
    /\ Done /\ call.op = "get_prices_series" /\ Fetched200 /\ IsArray
    /\ call.time_end = At(2024, 1, 2, 6, 0)
    /\ Len(Items) = 3
    /\ Items[1].date = Mar01 /\ Items[2].date = Mar03 /\ Items[3].date = Mar01
    /\ Items[1] # Items[3]
    /\ outcome.kind = "list" /\ Len(outcome.value) = 3
    /\ outcome.value[1].time = outcome.value[2].time

\* C10: an invocation has issued exactly one GET when it returns or raises, on
\* every path, and never more than one at any moment.
C10_ExactlyOneGet ==
    /\ gets <= 1
    /\ pc \in {"waiting", "done"} => (gets = 1 /\ query # NoUrl)
    /\ pc = "idle" => gets = 0

\* a parse error after a non-200 answer: still one GET
C10_Witness ==
    /\ Done /\ Non200 /\ Raised("FMPError") /\ gets = 1

====
